---- MODULE Spec2Model ----
(***************************************************************************)
(* Model of backend/ml-service/server.py: the /predict and /batch-predict  *)
(* handlers (validation, the single call to model.forecast, direction and  *)
(* confidence post-processing, response assembly) and the pure function    *)
(* calculate_confidence.                                                   *)
(*                                                                         *)
(* Numbers.  Prices and forecast values are integers; every derived real   *)
(* (percent change, confidence) is an exact fraction [num, den], den > 0.  *)
(* Python values whose type matters to calculate_confidence (None, number, *)
(* string, list) are tagged records.  A dict key that may be absent is an  *)
(* optional [present, v].                                                  *)
(***************************************************************************)
EXTENDS Integers, Sequences, FiniteSets, TLC

\* ------------------------------------------------------------- bounds
\* Largest number of items in a batch request.
MaxBatch == 2

\* ------------------------------------------------- program constants
MinPrices == 30
DefaultHorizon == 7

ValidHorizons == {1, 7, 30}

\* ------------------------------------------------------ value helpers
Abs(x) == IF x < 0 THEN -x ELSE x

Frac(n, d) == [num |-> n, den |-> d]
FromInt(n) == Frac(n, 1)
FracLess(a, b) == a.num * b.den < b.num * a.den
FracEq(a, b) == a.num * b.den = b.num * a.den
IsIntegral(a) == a.num % a.den = 0

Some(v) == [present |-> TRUE, v |-> v]
NoInt == [present |-> FALSE, v |-> 0]
NoStr == [present |-> FALSE, v |-> ""]
NoSeq == [present |-> FALSE, v |-> <<>>]
\* dict.get(key, default)
Get(opt, default) == IF opt.present THEN opt.v ELSE default

PyNone == [t |-> "none", n |-> 0, xs |-> <<>>]
PyNum(n) == [t |-> "num", n |-> n, xs |-> <<>>]
PyStr == [t |-> "str", n |-> 0, xs |-> <<>>]
PyList(xs) == [t |-> "list", n |-> 0, xs |-> xs]

\* s[-1]
Last(s) == s[Len(s)]

\* s[:h], Python slice semantics (a negative h counts from the end)
SliceTo(s, h) ==
    LET n == IF h >= 0 THEN (IF h < Len(s) THEN h ELSE Len(s))
             ELSE (IF Len(s) + h > 0 THEN Len(s) + h ELSE 0)
    IN  SubSeq(s, 1, n)

RECURSIVE SeqSum(_)
SeqSum(s) == IF s = <<>> THEN 0 ELSE s[1] + SeqSum(Tail(s))

RECURSIVE SeqMax(_)
\* max(list) of a non-empty list
SeqMax(s) ==
    IF Len(s) = 1 THEN s[1]
    ELSE LET m == SeqMax(Tail(s)) IN IF m > s[1] THEN m ELSE s[1]

\* max(a, b) and min(a, b) of Python: the first argument wins a tie
PyMax(a, b) == IF FracLess(a, b) THEN b ELSE a
PyMin(a, b) == IF FracLess(b, a) THEN b ELSE a

\* round(x, 2), as an integer number of hundredths (ties to even)
Round2(x) ==
    LET q == (100 * x.num) \div x.den
        r == (100 * x.num) - q * x.den
    IN  IF 2 * r < x.den THEN q
        ELSE IF 2 * r > x.den THEN q + 1
        ELSE IF q % 2 = 0 THEN q ELSE q + 1

\* int(x) for x >= 0 (truncation)
PyInt(x) == FromInt(x.num \div x.den)

\* ------------------------------------------------ calculate_confidence
\* min(90, max(40, 50 + abs(price_change) * 5)): the value is returned as
\* computed, without int()
heuristic_confidence(price_change) ==
    PyMin(FromInt(90),
          PyMax(FromInt(40),
                Frac(50 * price_change.den + 5 * Abs(price_change.num),
                     price_change.den)))

\* quantiles[-1] raises: None-like scalars are not subscriptable, an empty
\* list has no last element.  (A string never reaches the return either: its
\* last character is no list, and subtracting characters raises.)
subscript_raises(quantiles) ==
    quantiles.t # "list" \/ quantiles.xs = <<>>

\* quantiles[-1] if isinstance(quantiles[-1], list) else quantiles
last_quantiles(quantiles) ==
    IF Last(quantiles.xs).t = "list" THEN Last(quantiles.xs) ELSE quantiles

\* Mutant: the length test off by one.
enough_quantiles_off_by_one(last) == Len(last.xs) >= 1

\* len(last_quantiles) >= 2
enough_quantiles(last) == Len(last.xs) >= 2

\* last[-1] - last[0] and np.mean(last) raise unless every element is a number
arithmetic_raises(last) ==
    \E i \in 1..Len(last.xs) : last.xs[i].t # "num"

quantile_values(last) == [i \in 1..Len(last.xs) |-> last.xs[i].n]

\* spread = abs(last[-1] - last[0])
quantile_spread(last) ==
    LET vals == quantile_values(last) IN Abs(Last(vals) - vals[1])

\* mean_val = abs(np.mean(last)), as the fraction |sum| / len
quantile_mean_val(last) ==
    LET vals == quantile_values(last) IN Frac(Abs(SeqSum(vals)), Len(vals))

\* Mutant: the quantile estimate starts from the upper clamp 95, not from 90.
quantile_confidence_from_95(last) ==
    LET mean_val == quantile_mean_val(last)
        spread == quantile_spread(last)
        raw == Frac(95 * mean_val.num - 50 * spread * mean_val.den, mean_val.num)
    IN  PyInt(PyMax(FromInt(40), PyMin(FromInt(95), raw)))

\* relative_spread = spread / mean_val;
\* int(max(40, min(95, 90 - relative_spread * 50)))    (mean_val > 0)
quantile_confidence(last) ==
    LET mean_val == quantile_mean_val(last)
        spread == quantile_spread(last)
        \* spread / (s/n) = spread*n/s;  90 - 50*spread*n/s
        raw == Frac(90 * mean_val.num - 50 * spread * mean_val.den, mean_val.num)
    IN  PyInt(PyMax(FromInt(40), PyMin(FromInt(95), raw)))

\* The try block: "return" with a value, "raise" (swallowed by the bare
\* except) or "fall" through to the last line.
quantile_path(quantiles) ==
    IF subscript_raises(quantiles) THEN [kind |-> "raise", val |-> FromInt(0)]
    ELSE LET last == last_quantiles(quantiles) IN
         IF ~enough_quantiles(last) THEN [kind |-> "fall", val |-> FromInt(0)]
         ELSE IF arithmetic_raises(last) THEN [kind |-> "raise", val |-> FromInt(0)]
         ELSE IF quantile_mean_val(last).num > 0
              THEN [kind |-> "return", val |-> quantile_confidence(last)]
              ELSE [kind |-> "fall", val |-> FromInt(0)]

calculate_confidence(quantiles, price_change) ==
    IF quantiles.t = "none" THEN heuristic_confidence(price_change)
    ELSE LET r == quantile_path(quantiles) IN
         IF r.kind = "return" THEN r.val
         ELSE heuristic_confidence(price_change)

\* ------------------------------------------------- direction and result
\* ((predicted_price - last_price) / last_price) * 100, last_price > 0
percent_change(predicted_price, last_price) ==
    Frac(100 * (predicted_price - last_price), last_price)

\* Mutant: the thresholds are inclusive.
direction_of_inclusive(price_change) ==
    IF ~FracLess(price_change, FromInt(1)) THEN "up"
    ELSE IF ~FracLess(FromInt(-1), price_change) THEN "down"
    ELSE "neutral"

\* if price_change > 1 ... elif price_change < -1 ... else
direction_of(price_change) ==
    IF FracLess(FromInt(1), price_change) THEN "up"
    ELSE IF FracLess(price_change, FromInt(-1)) THEN "down"
    ELSE "neutral"

\* One PredictionResult.  forecast: the item's point forecast (a sequence of
\* integers), quantiles: a Python value, include_quantiles: /predict returns
\* the raw quantiles, /batch-predict has no such key.
build_result(symbol, last_price, forecast, quantiles, horizon, include_quantiles) ==
    LET predicted_price == IF forecast # <<>> THEN Last(forecast) ELSE last_price
        price_change == percent_change(predicted_price, last_price)
    IN  [symbol |-> symbol,
         direction |-> direction_of(price_change),
         confidence |-> calculate_confidence(quantiles, price_change),
         predicted_change |-> Round2(price_change),
         predicted_price |-> Round2(FromInt(predicted_price)),
         forecast |-> [k \in 1..Len(forecast) |-> Round2(FromInt(forecast[k]))],
         quantiles |-> IF include_quantiles THEN quantiles ELSE PyNone,
         horizon |-> horizon]

\* ------------------------------------------------------------ inputs
\* A price series of n points rising by 1 to `last`.
Series(n, last) == [i \in 1..n |-> last - (n - i)]

ShortSeries == Series(MinPrices - 1, 300)
OkSeries == Series(MinPrices, 300)

SymbolChoices == {NoStr, Some("BTC"), Some("ETH")}
HorizonChoices == {NoInt} \cup {Some(h) : h \in {-1, 0, 1, 5, 7, 30}}

\* One request item: a dict with optional keys symbol, prices, horizon.
Item(symbol, prices, horizon) ==
    [symbol |-> symbol, prices |-> prices, horizon |-> horizon]
EmptyDict == Item(NoStr, NoSeq, NoInt)
\* Items with too short a series (their horizon is never used) and items with
\* a long enough one.
ItemChoices ==
    {Item(s, Some(ShortSeries), NoInt) : s \in SymbolChoices}
    \cup {Item(s, Some(OkSeries), h) : s \in SymbolChoices, h \in HorizonChoices}

RequestLists == UNION {[1..n -> ItemChoices] : n \in 0..MaxBatch}

\* What request.get_json() returns.  null: None (no payload / JSON null).
\* /predict reads the dict itself (item), /batch-predict its "requests" key.
NullData == [null |-> TRUE, item |-> EmptyDict, requests |-> NoSeq]
PredictData ==
    {NullData}
    \cup {[null |-> FALSE, item |-> it, requests |-> NoSeq] :
            it \in ItemChoices
                   \cup {EmptyDict, Item(Some("SOL"), NoSeq, Some(7)),
                         Item(Some("SOL"), Some(ShortSeries), Some(5)),
                         Item(Some("SOL"), Some(Series(MinPrices + 1, 100)), Some(1))}}
BatchData ==
    {NullData, [null |-> FALSE, item |-> EmptyDict, requests |-> NoSeq]}
    \cup {[null |-> FALSE, item |-> EmptyDict, requests |-> Some(rs)] :
            rs \in RequestLists}

\* What model.forecast does: it raises, or returns one point forecast per
\* input, value last + drift * k at step k, and either no quantile forecast
\* (width absent) or the quantile set <<p - width*k, p, p + width*k>> per step.
DriftChoices == {-4, -3, 0, 3, 4}
WidthChoices == {NoInt, Some(0), Some(2)}
ModelOutcomes ==
    {[raises |-> TRUE, drift |-> 0, width |-> NoInt]}
    \cup [raises : {FALSE}, drift : DriftChoices, width : WidthChoices]

\* A forecast has `horizon` steps; none for a horizon below 1.
ForecastLen(horizon) == IF horizon > 0 THEN horizon ELSE 0

point_forecast(input, horizon, o) ==
    [k \in 1..ForecastLen(horizon) |-> Last(input) + o.drift * k]

\* .tolist() of one input's quantile forecast: a list of per-step lists
quantile_forecast(input, horizon, o) ==
    [k \in 1..ForecastLen(horizon) |->
        LET p == Last(input) + o.drift * k
            w == o.width.v * k
        IN  PyList(<<PyNum(p - w), PyNum(p), PyNum(p + w)>>)]

\* ------------------------------------------------------------- state
VARIABLES
    model,       \* the global model: "None" or "loaded"
    pc,          \* "idle", "predict_forecast", "batch_forecast", "done"
    endpoint,    \* "none", "predict", "batch"
    data,        \* the payload of the request being handled
    symbols,     \* handler locals: accepted symbols,
    inputs,      \*   their price arrays,
    horizons,    \*   their horizons (one element each for /predict)
    calls,       \* invocations of model.forecast in this request
    response,    \* [status, error, results]
    cc           \* calculate_confidence called on its own: [stage, quantiles, change, result]

vars == <<model, pc, endpoint, data, symbols, inputs, horizons, calls, response, cc>>

NoResponse == [status |-> 0, error |-> "", results |-> <<>>]
Error(status, msg) == [status |-> status, error |-> msg, results |-> <<>>]
Ok(results) == [status |-> 200, error |-> "", results |-> results]

CcIdle == [stage |-> "off", quantiles |-> PyNone, change |-> FromInt(0),
           result |-> FromInt(0)]

ModelErrorMsg == "forecast failed"

Init ==
    /\ model = "None"
    /\ pc = "idle"
    /\ endpoint = "none"
    /\ data = NullData
    /\ symbols = <<>>
    /\ inputs = <<>>
    /\ horizons = <<>>
    /\ calls = 0
    /\ response = NoResponse
    /\ cc = CcIdle

\* load_model() at startup; it succeeds or leaves the model None.
load_model ==
    /\ pc = "idle"
    /\ model = "None"
    /\ \E ok \in BOOLEAN : model' = IF ok THEN "loaded" ELSE "None"
    /\ UNCHANGED <<pc, endpoint, data, symbols, inputs, horizons, calls, response, cc>>

\* Mutant: a failure is not surfaced; the handler goes back to the step that
\* raised and runs it again.
handle_exception_retry(step, msg) == [pc |-> step, response |-> NoResponse]

\* except Exception as e: return jsonify({'error': str(e)}), 500
\* (step: the handler step the exception was raised in)
handle_exception(step, msg) == [pc |-> "done", response |-> Error(500, msg)]

respond(r) ==
    /\ pc' = "done"
    /\ response' = r
    /\ UNCHANGED <<symbols, inputs, horizons>>

\* ---------------------------------------------------------- /predict
\* not data: None or an empty dict
no_data(d) == d.null \/ d.item = EmptyDict

insufficient_history(prices) == Len(prices) < MinPrices

\* if horizon not in [1, 7, 30]: horizon = 7
coerce_horizon(horizon) ==
    IF horizon \in ValidHorizons THEN horizon ELSE DefaultHorizon

\* predict(), up to the call of model.forecast
predict_begin ==
    /\ pc = "idle"
    /\ \E d \in PredictData :
        /\ endpoint' = "predict"
        /\ data' = d
        /\ calls' = 0
        /\ IF model = "None" THEN respond(Error(503, "Model not loaded"))
           ELSE IF no_data(d) THEN respond(Error(400, "No data provided"))
           ELSE LET symbol == Get(d.item.symbol, "UNKNOWN")
                    prices == Get(d.item.prices, <<>>)
                    horizon == Get(d.item.horizon, DefaultHorizon)
                IN  IF insufficient_history(prices)
                    THEN respond(Error(400, "Need at least 30 price data points"))
                    ELSE /\ pc' = "predict_forecast"
                         /\ symbols' = <<symbol>>
                         /\ inputs' = <<prices>>
                         /\ horizons' = <<coerce_horizon(horizon)>>
                         /\ response' = NoResponse
    /\ UNCHANGED <<model, cc>>

\* predict(), from the call of model.forecast to the response
predict_forecast ==
    /\ pc = "predict_forecast"
    /\ calls' = calls + 1
    /\ \E o \in ModelOutcomes :
        IF o.raises
        THEN /\ pc' = handle_exception("predict_forecast", ModelErrorMsg).pc
             /\ response' = handle_exception("predict_forecast", ModelErrorMsg).response
        ELSE LET horizon == horizons[1]
                 forecast == point_forecast(inputs[1], horizon, o)
                 quantiles == IF o.width.present
                              THEN PyList(quantile_forecast(inputs[1], horizon, o))
                              ELSE PyNone
             IN  /\ pc' = "done"
                 /\ response' = Ok(<<build_result(symbols[1], Last(inputs[1]),
                                        forecast, quantiles, horizon, TRUE)>>)
    /\ UNCHANGED <<model, endpoint, data, symbols, inputs, horizons, cc>>

\* ---------------------------------------------------- /batch-predict
\* Mutant: an item needs more than 30 prices.
batch_accepts_strict(req) == Len(Get(req.prices, <<>>)) > MinPrices

\* if len(prices) >= 30
batch_accepts(req) == Len(Get(req.prices, <<>>)) >= MinPrices

\* Mutant: the check for an empty input list is missing.
no_valid_inputs_unchecked(ins) == FALSE

\* if not inputs
no_valid_inputs(ins) == ins = <<>>

\* batch_predict(), up to the call of model.forecast
batch_begin ==
    /\ pc = "idle"
    /\ \E d \in BatchData :
        /\ endpoint' = "batch"
        /\ data' = d
        /\ calls' = 0
        /\ IF model = "None" THEN respond(Error(503, "Model not loaded"))
           ELSE IF d.null
           THEN \* None.get raises AttributeError inside the try
                respond(handle_exception("batch_begin",
                                         "'NoneType' object has no attribute 'get'").response)
           ELSE LET requests_list == Get(d.requests, <<>>)
                    accepted == SelectSeq(requests_list, batch_accepts)
                IN  IF requests_list = <<>>
                    THEN respond(Error(400, "No requests provided"))
                    ELSE IF no_valid_inputs(accepted)
                    THEN respond(Error(400, "No valid inputs (need at least 30 prices each)"))
                    ELSE IF accepted = <<>>
                    THEN \* max() of an empty list raises ValueError
                         respond(handle_exception("batch_begin",
                                              "max() arg is an empty sequence").response)
                    ELSE /\ pc' = "batch_forecast"
                         /\ symbols' = [i \in 1..Len(accepted) |->
                                            Get(accepted[i].symbol, "UNKNOWN")]
                         /\ inputs' = [i \in 1..Len(accepted) |-> accepted[i].prices.v]
                         /\ horizons' = [i \in 1..Len(accepted) |->
                                            Get(accepted[i].horizon, DefaultHorizon)]
                         /\ response' = NoResponse
    /\ UNCHANGED <<model, cc>>

\* batch_predict(), from the call of model.forecast to the response
batch_forecast ==
    /\ pc = "batch_forecast"
    /\ calls' = calls + 1
    /\ \E o \in ModelOutcomes :
        IF o.raises
        THEN /\ pc' = handle_exception("batch_forecast", ModelErrorMsg).pc
             /\ response' = handle_exception("batch_forecast", ModelErrorMsg).response
        ELSE LET max_horizon == SeqMax(horizons)
                 result(i) ==
                    LET horizon == horizons[i]
                        forecast == SliceTo(point_forecast(inputs[i], max_horizon, o), horizon)
                        quantiles ==
                            IF o.width.present
                            THEN PyList(SliceTo(quantile_forecast(inputs[i], max_horizon, o),
                                                horizon))
                            ELSE PyNone
                    IN  build_result(symbols[i], Last(inputs[i]), forecast, quantiles,
                                     horizon, FALSE)
             IN  /\ pc' = "done"
                 /\ response' = Ok([i \in 1..Len(symbols) |-> result(i)])
    /\ UNCHANGED <<model, endpoint, data, symbols, inputs, horizons, cc>>

\* The response is sent; the handler's locals are gone and the next request
\* can arrive.
finish ==
    /\ pc = "done"
    /\ pc' = "idle"
    /\ endpoint' = "none"
    /\ data' = NullData
    /\ symbols' = <<>>
    /\ inputs' = <<>>
    /\ horizons' = <<>>
    /\ calls' = 0
    /\ response' = NoResponse
    /\ UNCHANGED <<model, cc>>

Next ==
    \/ load_model
    \/ predict_begin
    \/ predict_forecast
    \/ batch_begin
    \/ batch_forecast
    \/ finish

Spec == Init /\ [][Next]_vars

\* -------------------------------- calculate_confidence called on its own
\* Largest number of values in a quantile set.
MaxQuantiles == 3

QuantileValues == {-10, 0, 10, 12}
NumLists == UNION {[1..n -> {PyNum(v) : v \in QuantileValues}] : n \in 0..MaxQuantiles}

\* Quantile structures: absent, scalars, flat lists, lists of per-step lists,
\* and lists with elements that are no numbers.
QuantileInputs ==
    {PyNone, PyNum(5), PyStr}
    \cup {PyList(xs) : xs \in NumLists}
    \cup {PyList(<<PyList(xs)>>) : xs \in NumLists}
    \cup {PyList(<<PyList(<<PyNum(10), PyNum(12)>>), PyList(xs)>>) : xs \in NumLists}
    \cup {PyList(<<PyStr, PyStr>>),
          PyList(<<PyNum(10), PyStr, PyNum(12)>>),
          PyList(<<PyList(<<PyStr, PyNum(12)>>)>>),
          PyList(<<PyList(<<PyNum(10), PyNum(12)>>), PyNum(5)>>),
          PyList(<<PyNone, PyNone>>)}

ChangeChoices == {Frac(n, d) : n \in {-40, -10, -1, 0, 1, 4, 8, 40}, d \in {1, 3}}

InitConf ==
    /\ model = "None"
    /\ pc = "idle"
    /\ endpoint = "none"
    /\ data = NullData
    /\ symbols = <<>>
    /\ inputs = <<>>
    /\ horizons = <<>>
    /\ calls = 0
    /\ response = NoResponse
    /\ cc \in [stage : {"called"}, quantiles : QuantileInputs,
               change : ChangeChoices, result : {FromInt(0)}]

confidence_call ==
    /\ cc.stage = "called"
    /\ cc' = [cc EXCEPT !.stage = "returned",
                        !.result = calculate_confidence(cc.quantiles, cc.change)]
    /\ UNCHANGED <<model, pc, endpoint, data, symbols, inputs, horizons, calls, response>>

NextConf == confidence_call

SpecConf == InitConf /\ [][NextConf]_vars

\* =============================================================== claims
\* What the request asked for, read off the payload alone.
RequestItems ==
    IF endpoint = "predict" THEN <<data.item>> ELSE Get(data.requests, <<>>)
HasHistory(it) == Len(it.prices.v) >= 30
Accepted == SelectSeq(RequestItems, HasHistory)
Succeeded == pc = "done" /\ response.status = 200
RequestedHorizon(it) == IF it.horizon.present THEN it.horizon.v ELSE 7
NormalizedHorizon(it) ==
    IF RequestedHorizon(it) \in {1, 7, 30} THEN RequestedHorizon(it) ELSE 7
\* The forecast call asked for at least one step (for fewer, what the model
\* returns is not specified).
AskedForSteps == \E k \in 1..Len(Accepted) : RequestedHorizon(Accepted[k]) >= 1

\* C1: every returned forecast has as many steps as its item's own horizon
\* (the horizon as requested, or as normalised to {1, 7, 30}), in /predict
\* and in /batch-predict.
C1_ForecastLengthIsOwnHorizon ==
    (Succeeded /\ AskedForSteps) =>
        \A k \in 1..Len(response.results) :
            k <= Len(Accepted) =>
                Len(response.results[k].forecast)
                    \in {RequestedHorizon(Accepted[k]), NormalizedHorizon(Accepted[k])}

\* C2: calculate_confidence returns an integer in [40, 95] for every input.
C2_ConfidenceIsIntegerInRange ==
    cc.stage = "returned" =>
        /\ IsIntegral(cc.result)
        /\ ~FracLess(cc.result, FromInt(40))
        /\ ~FracLess(FromInt(95), cc.result)

\* C3: the horizon field of every returned PredictionResult is 1, 7 or 30.
C3_HorizonFieldIsValid ==
    (Succeeded /\ AskedForSteps) =>
        \A k \in 1..Len(response.results) :
            response.results[k].horizon \in {1, 7, 30}

\* The quantile set the estimator is specified to use: the last element when
\* it is a list, else the whole structure.
EffectiveSet(q) == IF Last(q.xs).t = "list" THEN Last(q.xs).xs ELSE q.xs
AllNumbers(xs) == \A i \in 1..Len(xs) : xs[i].t = "num"
SumOf(xs) == SeqSum([i \in 1..Len(xs) |-> xs[i].n])
Malformed(q) ==
    \/ q.t \in {"num", "str"}
    \/ /\ q.t = "list"
       /\ \/ q.xs = <<>>
          \/ /\ q.xs # <<>>
             /\ \/ Len(EffectiveSet(q)) < 2
                \/ ~AllNumbers(EffectiveSet(q))
                \/ AllNumbers(EffectiveSet(q)) /\ SumOf(EffectiveSet(q)) = 0
WellFormed(q) == q.t = "list" /\ ~Malformed(q)

\* clamp(50 + |c| * 5, 40, 90)
HeuristicValue(c) ==
    LET v == Frac(50 * c.den + 5 * Abs(c.num), c.den)
    IN  IF FracLess(FromInt(90), v) THEN FromInt(90)
        ELSE IF FracLess(v, FromInt(40)) THEN FromInt(40)
        ELSE v

\* C4: for a malformed quantile structure (not a list, empty, fewer than 2
\* values, non-numeric elements, mean 0) calculate_confidence returns the
\* heuristic value clamp(50 + |percent_change| * 5, 40, 90), the value it
\* returns for absent quantiles.
C4_MalformedQuantilesFallBack ==
    (cc.stage = "returned" /\ Malformed(cc.quantiles)) =>
        FracEq(cc.result, HeuristicValue(cc.change))

C4_Witness ==
    /\ cc.stage = "returned"
    /\ cc.quantiles = PyList(<<PyList(<<PyNum(-10), PyNum(0), PyNum(10)>>)>>)
    /\ cc.change = Frac(4, 3)
    /\ FracEq(cc.result, Frac(170, 3))

\* C5: a batch with the model ready and no model failure returns exactly one
\* result per item with at least 30 prices, in request order, each with its
\* own item's symbol ("UNKNOWN" when absent).
C5_BatchResultsFollowAcceptedItems ==
    (/\ pc = "done"
     /\ endpoint = "batch"
     /\ model = "loaded"
     /\ Accepted # <<>>
     /\ response.error # ModelErrorMsg) =>
        /\ response.status = 200
        /\ Len(response.results) = Len(Accepted)
        /\ \A k \in 1..Len(Accepted) :
              response.results[k].symbol =
                  (IF Accepted[k].symbol.present THEN Accepted[k].symbol.v ELSE "UNKNOWN")

C5_Witness ==
    /\ Succeeded
    /\ endpoint = "batch"
    /\ Len(RequestItems) = 2
    /\ ~HasHistory(RequestItems[1])
    /\ RequestItems[2].symbol = Some("ETH")
    /\ Len(response.results) = 1
    /\ response.results[1].symbol = "ETH"

C7_EmptyBatchIs400 ==
    /\ (Succeeded /\ endpoint = "batch") => response.results # <<>>
    /\ (/\ pc = "done"
        /\ endpoint = "batch"
        /\ model = "loaded"
        /\ ~data.null
        /\ Accepted = <<>>) => response.status = 400

C7_Witness ==
    /\ pc = "done"
    /\ endpoint = "batch"
    /\ Len(RequestItems) = 2
    /\ Accepted = <<>>
    /\ response.status = 400

\* C8: direction is "up" iff the percent change from the last known price to
\* the last forecast value is above 1, "down" iff below -1, else "neutral"
\* (exactly 1 and exactly -1 are neutral); with an empty forecast the
\* predicted price is the last known price, the change 0, the direction
\* neutral.  (Result prices are in hundredths.)
C8_DirectionThresholds ==
    Succeeded =>
        \A k \in 1..Len(response.results) :
            k <= Len(Accepted) =>
                LET r == response.results[k]
                    last == 100 * Last(Accepted[k].prices.v)
                    predicted == IF r.forecast = <<>> THEN last ELSE Last(r.forecast)
                IN  /\ r.predicted_price = predicted
                    /\ r.direction = "up" <=> 100 * (predicted - last) > last
                    /\ r.direction = "down" <=> 100 * (predicted - last) < -last
                    /\ r.direction \in {"up", "down", "neutral"}
                    /\ r.forecast = <<>> =>
                          r.predicted_change = 0 /\ r.direction = "neutral"

C8_Witness ==
    /\ Succeeded
    /\ Len(response.results) = 2
    /\ response.results[1].forecast = <<>>
    /\ response.results[1].direction = "neutral"
    /\ response.results[2].predicted_change = 100
    /\ response.results[2].direction = "neutral"

\* C9: model.forecast is invoked at most once per request: not at all when
\* the response is 400 or 503, once for a successful batch whatever its size,
\* and once when the call raises, which ends the request with a 500.
C9_ForecastCalledAtMostOnce ==
    /\ calls <= 1
    /\ (pc = "done" /\ response.status \in {400, 503}) => calls = 0
    /\ Succeeded => calls = 1
    /\ (pc = "done" /\ response.error = ModelErrorMsg) =>
          response.status = 500 /\ calls = 1
    /\ pc \in {"predict_forecast", "batch_forecast"} => calls = 0

C9_Witness ==
    /\ pc = "done"
    /\ endpoint = "batch"
    /\ Len(RequestItems) = 2
    /\ response.status = 500
    /\ response.error = ModelErrorMsg
    /\ calls = 1

\* C10: calculate_confidence never returns more than 90; on the quantile path
\* it returns 90 exactly when the last and the first value of the quantile
\* set are equal.
C10_ConfidenceAtMost90 ==
    cc.stage = "returned" =>
        /\ ~FracLess(FromInt(90), cc.result)
        /\ WellFormed(cc.quantiles) =>
              (FracEq(cc.result, FromInt(90))
                  <=> Last(EffectiveSet(cc.quantiles)).n = EffectiveSet(cc.quantiles)[1].n)

C10_Witness ==
    /\ cc.stage = "returned"
    /\ cc.quantiles = PyList(<<PyList(<<PyNum(10), PyNum(12), PyNum(10)>>)>>)
    /\ cc.change = FromInt(40)
    /\ cc.result = FromInt(90)

====
